---- MODULE Spec2Model ----
(***************************************************************************)
(* Model of kvm-ioctls' DeviceFd (src/kvm-ioctls/src/ioctls/device.rs) and  *)
(* of the arm64 serde implementations of kvm-bindings                       *)
(* (src/kvm-bindings/src/arm64/serialize.rs).                               *)
(*                                                                         *)
(* The kernel side of the device-attribute ioctls is the environment of     *)
(* DeviceFd.  It is modelled as the unit tests of device.rs exercise it:    *)
(* a descriptor table, device objects holding one round-tripping attribute, *)
(* the caller's memory and the thread's errno.                              *)
(***************************************************************************)
EXTENDS Integers, Sequences, FiniteSets, TLC

\* ---------------------------------------------------------------- bounds
MaxFd == 2
MaxHandle == 2
MaxDev == 2
MaxVcpu == 1
MaxAddr == 1
MaxVal == 1
MaxByte == 1
MaxExtra == 1
MaxEdge == 2
MaxFull == 4
MaxRet == 1

Fds == 0..MaxFd
HandleIds == 1..MaxHandle
Devs == 1..MaxDev
Addrs == 0..MaxAddr
Vals == 0..MaxVal

\* ------------------------------------------------------- OS error codes
ENXIO == 6
EBADF == 9
EFAULT == 14
EBUSY == 16
ENOTTY == 25

\* ------------------------------------------------- ioctl request codes
KVM_SET_DEVICE_ATTR == "KVM_SET_DEVICE_ATTR"
KVM_GET_DEVICE_ATTR == "KVM_GET_DEVICE_ATTR"
KVM_HAS_DEVICE_ATTR == "KVM_HAS_DEVICE_ATTR"

\* --------------------------------------------- kvm_device_attr values
\* Attribute groups: the interrupt-count group of the interrupt controllers
\* (KVM_DEV_ARM_VGIC_GRP_NR_IRQS, KVM_DEV_RISCV_AIA_GRP_CONFIG) and the VFIO
\* group, which no interrupt controller supports.
GRP_NR_IRQS == "GRP_NR_IRQS"
KVM_DEV_VFIO_GROUP == "KVM_DEV_VFIO_GROUP"
KVM_DEV_VFIO_GROUP_ADD == 1

kvm_device_attr(group, attr, addr, flags) ==
    [group |-> group, attr |-> attr, addr |-> addr, flags |-> flags]

\* The (group, attr) pairs the callers pass: the interrupt count (attr 0 of its
\* group), an attribute its group does not have, and the VFIO pair of the tests.
AttrPairs ==
    {<<GRP_NR_IRQS, 0>>, <<GRP_NR_IRQS, 1>>, <<KVM_DEV_VFIO_GROUP, KVM_DEV_VFIO_GROUP_ADD>>}

DeviceAttrs ==
    {kvm_device_attr(p[1], p[2], addr, 0) : p \in AttrPairs, addr \in Addrs}

\* ------------------------------------------------------ kernel objects
\* What a descriptor refers to: nothing (closed), a file that is no KVM
\* device (descriptor 0 of the process), or device object d.
Closed == [kind |-> "closed", d |-> 0]
OtherFile == [kind |-> "other", d |-> 0]
DevFile(d) == [kind |-> "dev", d |-> d]
\* A file of another driver, which answers a control operation it is given
\* with the positive value r and sets no error code.
ForeignFile(r) == [kind |-> "foreign", d |-> r]
Files ==
    {Closed, OtherFile} \cup {DevFile(d) : d \in Devs}
    \cup {ForeignFile(r) : r \in 1..MaxRet}

\* Device types: interrupt controllers that need a vCPU before attributes
\* can be set (GICv3, AIA) and ones that do not (GICv2).
VcpuFirst == "vcpu_first"
Plain == "plain"
NoDev == "none"
DevTypes == {VcpuFirst, Plain}

\* ------------------------------------------------------------- kernel
\* The kernel as the calls of device.rs see it:
\*   fdtab  what each descriptor of the process refers to
\*   devs   each device object's type and its interrupt-count attribute
\*   vcpus  the number of vCPUs of the VM
\*   mem    the caller's memory: address 0 is unmapped, the others hold a u32
\*   errno  the thread's last OS error code
FreeDev == [type |-> NoDev, nr_irqs |-> 0]

Mapped(addr) == addr # 0

\* The (group, attr) pairs an interrupt controller implements.
Supported(type, group, attr) ==
    type \in DevTypes /\ group = GRP_NR_IRQS /\ attr = 0

NeedsVcpu(type) == type = VcpuFirst

\* A control operation's record in the trace: its descriptor and request, and
\* the error code it set (0: it set none).
Fail(k, code, fd, req) ==
    [ret |-> -1, k |-> [k EXCEPT !.errno = code],
     trace |-> <<[fd |-> fd, req |-> req, errno |-> code]>>]

Done(k, fd, req) ==
    [ret |-> 0, k |-> k, trace |-> <<[fd |-> fd, req |-> req, errno |-> 0]>>]

\* A return value above 0: errno is left as it is.
Positive(k, r, fd, req) ==
    [ret |-> r, k |-> k, trace |-> <<[fd |-> fd, req |-> req, errno |-> 0]>>]

\* KVM_SET_DEVICE_ATTR on device d: the kernel reads the value at arg.addr.
kvm_set_attr(k, d, fd, arg) ==
    IF NeedsVcpu(k.devs[d].type) /\ k.vcpus = 0
    THEN Fail(k, EBUSY, fd, KVM_SET_DEVICE_ATTR)
    ELSE IF ~Mapped(arg.addr)
    THEN Fail(k, EFAULT, fd, KVM_SET_DEVICE_ATTR)
    ELSE Done([k EXCEPT !.devs[d].nr_irqs = k.mem[arg.addr]], fd, KVM_SET_DEVICE_ATTR)

\* KVM_GET_DEVICE_ATTR on device d: the kernel writes the value to arg.addr.
kvm_get_attr(k, d, fd, arg) ==
    IF ~Mapped(arg.addr)
    THEN Fail(k, EFAULT, fd, KVM_GET_DEVICE_ATTR)
    ELSE Done([k EXCEPT !.mem[arg.addr] = k.devs[d].nr_irqs], fd, KVM_GET_DEVICE_ATTR)

\* ioctl(fd, req, &arg): one control operation.  The result holds the return
\* value, the kernel afterwards and the operation issued.
ioctl(k, fd, req, arg) ==
    LET file == k.fdtab[fd] IN
    IF file = Closed THEN Fail(k, EBADF, fd, req)
    ELSE IF file = OtherFile THEN Fail(k, ENOTTY, fd, req)
    ELSE IF file.kind = "foreign" THEN Positive(k, file.d, fd, req)
    ELSE IF ~Supported(k.devs[file.d].type, arg.group, arg.attr)
    THEN Fail(k, ENXIO, fd, req)
    ELSE IF req = KVM_HAS_DEVICE_ATTR THEN Done(k, fd, req)
    ELSE IF req = KVM_SET_DEVICE_ATTR THEN kvm_set_attr(k, file.d, fd, arg)
    ELSE IF req = KVM_GET_DEVICE_ATTR THEN kvm_get_attr(k, file.d, fd, arg)
    ELSE Fail(k, ENOTTY, fd, req)

\* errno::Error::last(): the thread's errno.
errno_last(k) == k.errno

HasFree(k) == \E n \in Fds : k.fdtab[n] = Closed

\* The descriptor the kernel hands out next: the lowest one not in use.
LowestFree(k) ==
    CHOOSE n \in Fds : k.fdtab[n] = Closed /\ \A m \in Fds : m < n => k.fdtab[m] # Closed

\* A device object goes away with the last descriptor that refers to it.
Reap(k) ==
    [k EXCEPT !.devs = [d \in Devs |->
        IF \E n \in Fds : k.fdtab[n] = DevFile(d) THEN k.devs[d] ELSE FreeDev]]

\* close(fd): 0 and the descriptor is released, or -1 (EBADF) when it is not open.
close(k, fd) ==
    IF k.fdtab[fd] = Closed
    THEN [ret |-> -1, k |-> [k EXCEPT !.errno = EBADF]]
    ELSE [ret |-> 0, k |-> Reap([k EXCEPT !.fdtab[fd] = Closed])]

\* libc::dup(oldfd): a new descriptor for the same file.
dup(k, oldfd) ==
    IF k.fdtab[oldfd] = Closed
    THEN [ret |-> -1, k |-> [k EXCEPT !.errno = EBADF]]
    ELSE [ret |-> LowestFree(k),
          k |-> [k EXCEPT !.fdtab[LowestFree(k)] = k.fdtab[oldfd]]]

\* KVM_CREATE_DEVICE: a new device object of the type and a descriptor for it.
kvm_create_device(k, d, type) ==
    [ret |-> LowestFree(k),
     k |-> [k EXCEPT !.fdtab[LowestFree(k)] = DevFile(d),
                     !.devs[d] = [type |-> type, nr_irqs |-> 0]]]

\* ------------------------------------------------------------ DeviceFd
\* Result<()>: Ok(()) or Err(errno::Error) carrying an OS error code.
Ok == [ok |-> TRUE, code |-> 0]
Err(code) == [ok |-> FALSE, code |-> code]

\* struct DeviceFd { fd: File }
DeviceFd(fd) == [fd |-> fd]

\* Variant of as_raw_fd: the descriptor value of a default-initialised
\* kvm_create_device (fd: 0) instead of the handle's own.
as_raw_fd_zero(self) == 0

as_raw_fd(self) == self.fd

new_device(dev_fd) == DeviceFd(dev_fd)

from_raw_fd(fd) == DeviceFd(fd)

\* vmm_sys_util::ioctl::ioctl_with_ref / ioctl_with_mut_ref: ioctl on the
\* handle's descriptor with the address of the argument.
ioctl_with_ref(k, self, req, arg) == ioctl(k, as_raw_fd(self), req, arg)

ioctl_with_mut_ref(k, self, req, arg) == ioctl(k, as_raw_fd(self), req, arg)

\* A method's outcome: its Result, the kernel afterwards, the descriptor as the
\* call leaves it, and the control operations it issued.
Outcome(res, r, device_attr) ==
    [res |-> res, k |-> r.k, attr |-> device_attr, calls |-> r.trace, ret |-> r.ret]

\* Variant of has_device_attr: errno is read before the control operation.
has_device_attr_stale(k, self, device_attr) ==
    LET r == ioctl_with_ref(k, self, KVM_HAS_DEVICE_ATTR, device_attr) IN
    IF r.ret # 0
    THEN Outcome(Err(errno_last(k)), r, device_attr)
    ELSE Outcome(Ok, r, device_attr)

\* Variant of has_device_attr: a failed control operation is issued again.
has_device_attr_retry(k, self, device_attr) ==
    LET r == ioctl_with_ref(k, self, KVM_HAS_DEVICE_ATTR, device_attr)
        r2 == ioctl_with_ref(r.k, self, KVM_HAS_DEVICE_ATTR, device_attr) IN
    IF r.ret # 0
    THEN IF r2.ret # 0
         THEN [res |-> Err(errno_last(r2.k)), k |-> r2.k, attr |-> device_attr,
               calls |-> r.trace \o r2.trace, ret |-> r2.ret]
         ELSE [res |-> Ok, k |-> r2.k, attr |-> device_attr,
               calls |-> r.trace \o r2.trace, ret |-> r2.ret]
    ELSE Outcome(Ok, r, device_attr)

has_device_attr(k, self, device_attr) ==
    LET r == ioctl_with_ref(k, self, KVM_HAS_DEVICE_ATTR, device_attr) IN
    IF r.ret # 0
    THEN Outcome(Err(errno_last(r.k)), r, device_attr)
    ELSE Outcome(Ok, r, device_attr)

\* Variant of set_device_attr: the test of the return value is inverted.
set_device_attr_inverted(k, self, device_attr) ==
    LET r == ioctl_with_ref(k, self, KVM_SET_DEVICE_ATTR, device_attr) IN
    IF r.ret = 0
    THEN Outcome(Err(errno_last(r.k)), r, device_attr)
    ELSE Outcome(Ok, r, device_attr)

\* Variant of set_device_attr: only a positive return value is an error.
set_device_attr_sign(k, self, device_attr) ==
    LET r == ioctl_with_ref(k, self, KVM_SET_DEVICE_ATTR, device_attr) IN
    IF r.ret > 0
    THEN Outcome(Err(errno_last(r.k)), r, device_attr)
    ELSE Outcome(Ok, r, device_attr)

set_device_attr(k, self, device_attr) ==
    LET r == ioctl_with_ref(k, self, KVM_SET_DEVICE_ATTR, device_attr) IN
    IF r.ret # 0
    THEN Outcome(Err(errno_last(r.k)), r, device_attr)
    ELSE Outcome(Ok, r, device_attr)

\* Variant of get_device_attr: the set request is issued.
get_device_attr_as_set(k, self, device_attr) ==
    LET r == ioctl_with_mut_ref(k, self, KVM_SET_DEVICE_ATTR, device_attr) IN
    IF r.ret # 0
    THEN Outcome(Err(errno_last(r.k)), r, device_attr)
    ELSE Outcome(Ok, r, device_attr)

\* Variant of get_device_attr: the has request is issued.
get_device_attr_as_has(k, self, device_attr) ==
    LET r == ioctl_with_mut_ref(k, self, KVM_HAS_DEVICE_ATTR, device_attr) IN
    IF r.ret # 0
    THEN Outcome(Err(errno_last(r.k)), r, device_attr)
    ELSE Outcome(Ok, r, device_attr)

get_device_attr(k, self, device_attr) ==
    LET r == ioctl_with_mut_ref(k, self, KVM_GET_DEVICE_ATTR, device_attr) IN
    IF r.ret # 0
    THEN Outcome(Err(errno_last(r.k)), r, device_attr)
    ELSE Outcome(Ok, r, device_attr)

\* Dropping a DeviceFd drops its File, which closes the descriptor and
\* ignores close's result.
\* Variant of drop: the descriptor is released without being closed
\* (as by into_raw_fd or mem::forget).
drop_leak(k, self) == [k |-> k, closed |-> <<>>]

drop(k, self) ==
    LET r == close(k, as_raw_fd(self)) IN
    [k |-> r.k, closed |-> <<as_raw_fd(self)>>]

\* The DeviceFd value is gone once dropped.
Dropped == DeviceFd(-1)

\* ------------------------------------------------- serialization (arm64)
\* The types serde_impls! is applied to.
SerdeTypes ==
    {"user_pt_regs", "user_fpsimd_state", "kvm_regs", "kvm_vcpu_init",
     "kvm_mp_state", "kvm_one_reg", "kvm_irq_routing", "kvm_irq_routing_entry"}

\* std::mem::size_of::<T>() of the arm64 bindings, in bytes.
size_of(T) ==
    CASE T = "user_pt_regs" -> 272
      [] T = "user_fpsimd_state" -> 528
      [] T = "kvm_regs" -> 864
      [] T = "kvm_vcpu_init" -> 32
      [] T = "kvm_mp_state" -> 4
      [] T = "kvm_one_reg" -> 16
      [] T = "kvm_irq_routing" -> 8
      [] T = "kvm_irq_routing_entry" -> 48

\* The byte values the inputs are drawn from: the low ones and the highest.
ByteVals == (0..MaxByte) \cup {255}

\* A structure in memory: its bytes, of which those after position init were
\* never written (a union written through a smaller member); init is the
\* size for a structure that is written in full.
Struct(bytes, init) == [bytes |-> bytes, init |-> init]

\* T::default(): all bytes zero.
Default(T) == Struct([i \in 1..size_of(T) |-> 0], size_of(T))

\* kvm_irq_routing_entry: the union u starts after gsi, type, flags and pad
\* (16 bytes); its smallest members (irqchip, hv_sint) are 8 bytes.
UnionStart(T) == IF T = "kvm_irq_routing_entry" THEN 16 ELSE size_of(T)

SmallMember(T) == IF T = "kvm_irq_routing_entry" THEN 8 ELSE 0

\* The positions and lengths near the two ends of a structure of n bytes.
Edge(n) == {p \in 0..(n + MaxExtra) : p <= MaxEdge \/ p >= n - MaxEdge}

\* The structures of type T the round trips are run on: the default, the
\* ones with a single byte set near either end, every structure of a type of
\* at most MaxFull bytes, and for a type with a union the ones written through
\* its smallest member.
Structs(T) ==
    {Default(T)}
    \cup {Struct([i \in 1..size_of(T) |-> IF i = p THEN b ELSE 0], size_of(T)) :
            p \in Edge(size_of(T)) \cap (1..size_of(T)), b \in ByteVals \ {0}}
    \cup {Struct(bytes, size_of(T)) :
            bytes \in IF size_of(T) <= MaxFull THEN [1..size_of(T) -> ByteVals] ELSE {}}
    \cup {Struct([i \in 1..size_of(T) |-> IF i <= UnionStart(T) + SmallMember(T) THEN b ELSE 0],
                 UnionStart(T) + SmallMember(T)) :
            b \in {c \in ByteVals : UnionStart(T) + SmallMember(T) < size_of(T)}}

\* IntoBytes::as_bytes: the structure's full extent as bytes.  A byte that was
\* never written reads as whatever the memory holds (fill).
as_bytes(x, fill) ==
    [i \in 1..Len(x.bytes) |-> IF i <= x.init THEN x.bytes[i] ELSE fill]

\* zerocopy::transmute!: the byte array as the structure, every byte written.
transmute(backing) == Struct(backing, Len(backing))

\* Serialize for T: serializer.serialize_bytes(self.as_bytes()).
serialize(x, fill) == as_bytes(x, fill)

\* Variant of visit: a buffer of another length is cut or padded with zeros.
visit_lenient(T, bytes) ==
    [ok |-> TRUE, err |-> "",
     backing |-> [i \in 1..size_of(T) |-> IF i <= Len(bytes) THEN bytes[i] ELSE 0],
     read |-> IF Len(bytes) < size_of(T) THEN Len(bytes) ELSE size_of(T)]

\* Variant of visit: the bytes are stored in reverse order.
visit_reversed(T, bytes) ==
    IF Len(bytes) # size_of(T)
    THEN [ok |-> FALSE, err |-> "size-mismatch", backing |-> <<>>, read |-> 0]
    ELSE [ok |-> TRUE, err |-> "",
          backing |-> [i \in 1..size_of(T) |-> bytes[size_of(T) + 1 - i]],
          read |-> size_of(T)]

\* The visitor of Deserialize for T (visit_bytes, and visit_seq for a format
\* that hands the bytes over one by one): the byte count is checked against
\* the size of T, then the bytes are taken.  read is the number of bytes of
\* the buffer that were read.
visit(T, bytes) ==
    IF Len(bytes) # size_of(T)
    THEN [ok |-> FALSE, err |-> "size-mismatch", backing |-> <<>>, read |-> 0]
    ELSE [ok |-> TRUE, err |-> "", backing |-> bytes, read |-> size_of(T)]

NoStruct == Struct(<<>>, 0)

\* Deserialize for T, given the bytes the format hands to the visitor.
deserialize(T, bytes) ==
    LET v == visit(T, bytes) IN
    IF v.ok
    THEN [ok |-> TRUE, err |-> "", value |-> transmute(v.backing), read |-> v.read]
    ELSE [ok |-> FALSE, err |-> v.err, value |-> NoStruct, read |-> v.read]

\* bincode, config::standard(): a length is one byte below 251, else the byte
\* 251 and the length as a little-endian u16 (every size here is below 65536).
varint(n) == IF n < 251 THEN <<n>> ELSE <<251, n % 256, n \div 256>>

\* bincode's serialize_bytes: the length, then the bytes.
bincode_encode(bytes) == varint(Len(bytes)) \o bytes

\* bincode's deserialize_bytes: the length, then that many bytes of the slice.
bincode_decode(buf) ==
    LET short == Len(buf) >= 1 /\ buf[1] < 251
        long == Len(buf) >= 3 /\ buf[1] = 251
        n == IF short THEN buf[1] ELSE IF long THEN buf[2] + 256 * buf[3] ELSE 0
        at == IF short THEN 1 ELSE 3 IN
    IF (short \/ long) /\ Len(buf) >= at + n
    THEN [ok |-> TRUE, bytes |-> SubSeq(buf, at + 1, at + n)]
    ELSE [ok |-> FALSE, bytes |-> <<>>]

\* serde_json: bytes are written as an array of numbers, "[0,0,255]".  The text
\* is a sequence of tokens; a number is its decimal digits.
Tok(t, v) == [t |-> t, v |-> v]

Digits(b) ==
    IF b < 10 THEN <<b>>
    ELSE IF b < 100 THEN <<b \div 10, b % 10>>
    ELSE <<b \div 100, (b \div 10) % 10, b % 10>>

Number(ds) ==
    IF Len(ds) = 1 THEN ds[1]
    ELSE IF Len(ds) = 2 THEN 10 * ds[1] + ds[2]
    ELSE 100 * ds[1] + 10 * ds[2] + ds[3]

json_encode(bytes) ==
    IF Len(bytes) = 0 THEN <<Tok("[", <<>>), Tok("]", <<>>)>>
    ELSE [i \in 1..(2 * Len(bytes) + 1) |->
            IF i = 1 THEN Tok("[", <<>>)
            ELSE IF i = 2 * Len(bytes) + 1 THEN Tok("]", <<>>)
            ELSE IF i % 2 = 0 THEN Tok("num", Digits(bytes[i \div 2]))
            ELSE Tok(",", <<>>)]

json_decode(text) ==
    LET n == (Len(text) - 1) \div 2
        empty == Len(text) = 2 /\ text[1].t = "[" /\ text[2].t = "]"
        full ==
            /\ Len(text) >= 3 /\ Len(text) % 2 = 1
            /\ text[1].t = "[" /\ text[Len(text)].t = "]"
            /\ \A i \in 2..(Len(text) - 1) :
                 IF i % 2 = 0
                 THEN text[i].t = "num" /\ Len(text[i].v) \in 1..3 /\ Number(text[i].v) <= 255
                 ELSE text[i].t = "," IN
    IF empty THEN [ok |-> TRUE, bytes |-> <<>>]
    ELSE IF full THEN [ok |-> TRUE, bytes |-> [j \in 1..n |-> Number(text[2 * j].v)]]
    ELSE [ok |-> FALSE, bytes |-> <<>>]

Encode(format, bytes) ==
    IF format = "bincode" THEN bincode_encode(bytes) ELSE json_encode(bytes)

Decode(format, data) ==
    IF format = "bincode" THEN bincode_decode(data) ELSE json_decode(data)

Formats == {"bincode", "json"}

\* encode_to_vec / to_string of a structure.
to_format(format, x, fill) == Encode(format, serialize(x, fill))

\* decode_from_slice / from_str as T.
from_format(format, T, data) ==
    LET d == Decode(format, data) IN
    IF d.ok THEN deserialize(T, d.bytes)
    ELSE [ok |-> FALSE, err |-> "syntax", value |-> NoStruct, read |-> 0]

\* tests::is_serde and tests::is_serde_json, for any structure x of T:
\* serialize, deserialize (unwrap), serialize again.
is_serde(format, T, x, fill) ==
    LET serialized == to_format(format, x, fill)
        deserialized == from_format(format, T, serialized) IN
    [op |-> "round_trip", format |-> format, T |-> T, input |-> serialized,
     ok |-> deserialized.ok, err |-> deserialized.err,
     again |-> IF deserialized.ok THEN to_format(format, deserialized.value, 0) ELSE <<>>,
     value |-> deserialized.value, read |-> deserialized.read, len |-> Len(x.bytes)]

\* The buffers handed to decode: empty, short, about the size of T and past
\* it, filled with one byte value.
Buffers(T) ==
    {[i \in 1..n |-> b] : n \in Edge(size_of(T)), b \in ByteVals}

\* Deserializing T from a buffer of bytes, in a format.
decode_buffer(format, T, buf) ==
    LET r == from_format(format, T, Encode(format, buf)) IN
    [op |-> "decode", format |-> format, T |-> T, input |-> buf,
     ok |-> r.ok, err |-> r.err, again |-> <<>>,
     value |-> r.value, read |-> r.read, len |-> Len(buf)]

VARIABLES kernel, handles, dups, broken, written, last, serde

vars == <<kernel, handles, dups, broken, written, last, serde>>

\* ------------------------------------------------------------- state
\*   kernel   the kernel record (fdtab, devs, vcpus, mem, errno)
\*   handles  each DeviceFd value of the program: free (not yet made), live
\*            or dropped, with the struct itself in self.  src is the handle
\*            whose descriptor was duplicated to make it (0: none) and file
\*            the file it is meant to refer to: the device created with it,
\*            the file of src, or what the wrapped descriptor referred to;
\*            of its drop, nclose is the number of
\*            close calls, wasOpen whether its descriptor was open before
\*            and leftOpen whether it was open after.
\*   dups     descriptors returned by libc::dup and not yet wrapped: the
\*            handle duplicated and its file
\*   broken   whether some from_raw_fd was given a descriptor that was not
\*            open or that a live handle owned (its safety contract)
\*   written  per device, the value of the last successful set_device_attr
\*   last     the attribute call just made: method, handle, descriptor as
\*            passed (attr) and as left (out), Result, control operations
\*            issued, and in prev the error code of the identical set when
\*            that was the call before and failed (0 otherwise), and in ret
\*            the return value of its control operation.  Creating
\*            a vCPU keeps it; the other steps of the caller forget it.
\*   serde    the serialization that was run: a round trip or a decode
NoHandle == [st |-> "free", self |-> DeviceFd(-1), file |-> Closed, src |-> 0,
             nclose |-> 0, wasOpen |-> FALSE, leftOpen |-> FALSE]

Live(h) == handles[h].st = "live"

\* Handle ids are given out in order.
NextHandle(h) ==
    handles[h].st = "free" /\ \A g \in HandleIds : g < h => handles[g].st # "free"

NoDup == [src |-> 0, file |-> Closed]
NoCall == [op |-> "none", h |-> 0, attr |-> kvm_device_attr(GRP_NR_IRQS, 0, 0, 0),
           out |-> kvm_device_attr(GRP_NR_IRQS, 0, 0, 0), res |-> Ok, calls |-> <<>>,
           prev |-> 0, ret |-> 0]
NoValue == -1
NoSerde == [op |-> "none", format |-> "", T |-> "", input |-> <<>>, ok |-> TRUE,
            err |-> "", again |-> <<>>, value |-> NoStruct, read |-> 0, len |-> 0]

InitKernel ==
    [fdtab |-> [n \in Fds |-> IF n = 0 THEN OtherFile ELSE Closed],
     devs |-> [d \in Devs |-> FreeDev],
     vcpus |-> 0,
     mem |-> [a \in Addrs |-> 0],
     errno |-> 0]

Init ==
    /\ kernel = InitKernel
    /\ handles = [h \in HandleIds |-> NoHandle]
    /\ dups = [n \in Fds |-> NoDup]
    /\ broken = FALSE
    /\ written = [d \in Devs |-> NoValue]
    /\ last = NoCall
    /\ serde = NoSerde

\* Ghost state follows the kernel: a value written to a device that is gone,
\* or a dup record of a descriptor that is closed, is forgotten.
Settle(k) ==
    /\ written' = [d \in Devs |-> IF k.devs[d].type = NoDev THEN NoValue ELSE written[d]]
    /\ dups' = [n \in Fds |-> IF k.fdtab[n] = Closed THEN NoDup ELSE dups[n]]

\* vm.create_device(..) with new_device: a new device and the handle that
\* owns its descriptor.
CreateDevice(h, d, type) ==
    /\ NextHandle(h)
    /\ kernel.devs[d].type = NoDev
    /\ \A e \in Devs : e < d => kernel.devs[e].type # NoDev
    /\ HasFree(kernel)
    /\ LET r == kvm_create_device(kernel, d, type) IN
       /\ kernel' = r.k
       /\ handles' = [handles EXCEPT ![h] =
            [NoHandle EXCEPT !.st = "live", !.self = new_device(r.ret), !.file = DevFile(d)]]
    /\ last' = NoCall
    /\ UNCHANGED <<dups, broken, written, serde>>

\* vm.create_vcpu(..)
CreateVcpu ==
    /\ kernel.vcpus < MaxVcpu
    /\ kernel' = [kernel EXCEPT !.vcpus = @ + 1]
    /\ UNCHANGED <<handles, dups, broken, written, last, serde>>

\* libc::dup(device_fd.as_raw_fd())
Dup(h) ==
    /\ Live(h)
    /\ HasFree(kernel)
    /\ LET r == dup(kernel, as_raw_fd(handles[h].self)) IN
       /\ kernel' = r.k
       /\ dups' = IF r.ret >= 0
                  THEN [dups EXCEPT ![r.ret] = [src |-> h, file |-> handles[h].file]]
                  ELSE dups
    /\ last' = NoCall
    /\ UNCHANGED <<handles, broken, written, serde>>

\* DeviceFd::from_raw_fd(fd), for any descriptor value: nothing is checked.
FromRawFd(h, fd) ==
    /\ NextHandle(h)
    /\ handles' = [handles EXCEPT ![h] =
            [NoHandle EXCEPT !.st = "live", !.self = from_raw_fd(fd),
                             !.src = dups[fd].src,
                             !.file = IF dups[fd].src # 0 THEN dups[fd].file
                                      ELSE kernel.fdtab[fd]]]
    /\ dups' = [dups EXCEPT ![fd] = NoDup]
    /\ broken' = (broken \/ kernel.fdtab[fd] = Closed
                         \/ \E g \in HandleIds : Live(g) /\ as_raw_fd(handles[g].self) = fd)
    /\ last' = NoCall
    /\ UNCHANGED <<kernel, written, serde>>

\* A handle goes out of scope.
Drop(h) ==
    /\ Live(h)
    /\ LET self == handles[h].self
           r == drop(kernel, self) IN
       /\ kernel' = r.k
       /\ handles' = [handles EXCEPT ![h] =
            [NoHandle EXCEPT !.st = "dropped", !.self = Dropped,
                             !.src = handles[h].src,
                             !.nclose = Len(r.closed),
                             !.wasOpen = kernel.fdtab[self.fd] # Closed,
                             !.leftOpen = r.k.fdtab[self.fd] # Closed]]
       /\ Settle(r.k)
    /\ last' = NoCall
    /\ UNCHANGED <<broken, serde>>

\* The caller stores a value in its buffer.
WriteData(addr, v) ==
    /\ Mapped(addr)
    /\ kernel.mem[addr] # v
    /\ kernel' = [kernel EXCEPT !.mem[addr] = v]
    /\ last' = NoCall
    /\ UNCHANGED <<handles, dups, broken, written, serde>>

Called(op, h, device_attr, o) ==
    [op |-> op, h |-> h, attr |-> device_attr, out |-> o.attr, res |-> o.res,
     calls |-> o.calls, ret |-> o.ret,
     prev |-> IF op = "set" /\ last.op = op /\ last.h = h /\ last.attr = device_attr
              THEN last.res.code ELSE 0]

HasDeviceAttr(h, device_attr) ==
    /\ Live(h)
    /\ LET o == has_device_attr(kernel, handles[h].self, device_attr) IN
       /\ kernel' = o.k
       /\ last' = Called("has", h, device_attr, o)
    /\ UNCHANGED <<handles, dups, broken, written, serde>>

SetDeviceAttr(h, device_attr) ==
    /\ Live(h)
    /\ LET o == set_device_attr(kernel, handles[h].self, device_attr)
           file == kernel.fdtab[handles[h].self.fd] IN
       /\ kernel' = o.k
       /\ last' = Called("set", h, device_attr, o)
       /\ written' = IF o.res.ok /\ file.kind = "dev"
                     THEN [written EXCEPT ![file.d] = kernel.mem[device_attr.addr]]
                     ELSE written
    /\ UNCHANGED <<handles, dups, broken, serde>>

GetDeviceAttr(h, device_attr) ==
    /\ Live(h)
    /\ LET o == get_device_attr(kernel, handles[h].self, device_attr) IN
       /\ kernel' = o.k
       /\ last' = Called("get", h, device_attr, o)
    /\ UNCHANGED <<handles, dups, broken, written, serde>>

Next ==
    \/ \E h \in HandleIds, d \in Devs, type \in DevTypes : CreateDevice(h, d, type)
    \/ CreateVcpu
    \/ \E h \in HandleIds : Dup(h)
    \/ \E h \in HandleIds, fd \in Fds : FromRawFd(h, fd)
    \/ \E h \in HandleIds : Drop(h)
    \/ \E addr \in Addrs, v \in Vals : WriteData(addr, v)
    \/ \E h \in HandleIds, a \in DeviceAttrs : HasDeviceAttr(h, a)
    \/ \E h \in HandleIds, a \in DeviceAttrs : SetDeviceAttr(h, a)
    \/ \E h \in HandleIds, a \in DeviceAttrs : GetDeviceAttr(h, a)

Spec == Init /\ [][Next]_vars

\* The process opens a file of another driver; from_raw_fd can then wrap its
\* descriptor like any other.
OpenForeign(r) ==
    /\ HasFree(kernel)
    /\ kernel' = [kernel EXCEPT !.fdtab[LowestFree(kernel)] = ForeignFile(r)]
    /\ last' = NoCall
    /\ UNCHANGED <<handles, dups, broken, written, serde>>

ForeignNext ==
    \/ Next
    \/ \E r \in 1..MaxRet : OpenForeign(r)

\* The program with descriptors of other drivers among those it can wrap.
ForeignSpec == Init /\ [][ForeignNext]_vars

\* One run of is_serde / is_serde_json on a structure of T.
RoundTrip(format, T, x, fill) ==
    /\ serde = NoSerde
    /\ serde' = is_serde(format, T, x, fill)
    /\ UNCHANGED <<kernel, handles, dups, broken, written, last>>

\* One decode of a buffer as T.
DecodeBuffer(format, T, buf) ==
    /\ serde = NoSerde
    /\ serde' = decode_buffer(format, T, buf)
    /\ UNCHANGED <<kernel, handles, dups, broken, written, last>>

SerdeNext ==
    \/ \E f \in Formats, T \in SerdeTypes, fill \in ByteVals :
         \E x \in Structs(T) : RoundTrip(f, T, x, fill)
    \/ \E f \in Formats, T \in SerdeTypes :
         \E buf \in Buffers(T) : DecodeBuffer(f, T, buf)

SerdeSpec == Init /\ [][SerdeNext]_vars

\* ------------------------------------------------------------- claims
\* The file a live handle's descriptor refers to, and the device type there.
HFile(h) == kernel.fdtab[handles[h].self.fd]

OnDevice(h) == HFile(h).kind = "dev"

HType(h) == kernel.devs[HFile(h).d].type

\* A step is the call of method op with handle h and descriptor a when it
\* leaves that call in last and creates no vCPU: creating a vCPU is the one
\* other step that leaves a call in last.
CallStep(op, h, a) ==
    /\ last'.op = op /\ last'.h = h /\ last'.attr = a
    /\ kernel'.vcpus = kernel.vcpus

\* C1: on a device whose interrupt-count attribute round-trips, when the last
\* set_device_attr that succeeded on the device stored v, a get_device_attr
\* of that (group, attr) with addr at a mapped buffer succeeds and leaves
\* exactly v in the buffer.
C1_GetReturnsLastSet ==
    [][LET h == last'.h  a == last'.attr IN
        (/\ CallStep("get", h, a)
         /\ OnDevice(h)
         /\ Supported(HType(h), a.group, a.attr)
         /\ written[HFile(h).d] # NoValue
         /\ Mapped(a.addr))
        => (/\ last'.res = Ok
            /\ kernel'.mem[a.addr] = written[HFile(h).d])]_vars

\* A get has just returned, in a buffer that held something else, the value a
\* set stored before.
C1_Witness ==
    /\ last.op = "get" /\ last.res = Ok /\ Live(last.h) /\ OnDevice(last.h)
    /\ written[HFile(last.h).d] = MaxVal
    /\ kernel.mem[last.attr.addr] = MaxVal

\* C2: has_device_attr with a (group, attr) pair the device does not support
\* returns an error whose OS error code is not 0 and leaves the descriptor
\* (group, attr, addr, flags) as it was passed.
C2_HasUnsupportedFails ==
    [][LET h == last'.h  a == last'.attr IN
        (/\ CallStep("has", h, a)
         /\ OnDevice(h)
         /\ ~Supported(HType(h), a.group, a.attr))
        => (/\ ~last'.res.ok
            /\ last'.res.code # 0
            /\ last'.out = a)]_vars

\* has_device_attr has just failed for the VFIO pair on an interrupt controller.
C2_Witness ==
    /\ last.op = "has" /\ ~last.res.ok /\ Live(last.h) /\ OnDevice(last.h)
    /\ last.attr.group = KVM_DEV_VFIO_GROUP
    /\ last.attr.addr # 0 /\ last.out = last.attr

\* C3: get_device_attr of a supported (group, attr) pair with an addr that is
\* not mapped never succeeds: it returns EFAULT, which is not the error the
\* same handle returns for an unsupported pair, and the same call with a
\* mapped addr then succeeds.
C3_GetBadAddrFaults ==
    [][LET h == last'.h  a == last'.attr IN
        (/\ CallStep("get", h, a)
         /\ OnDevice(h)
         /\ Supported(HType(h), a.group, a.attr)
         /\ ~Mapped(a.addr))
        => (/\ last'.res = Err(EFAULT)
            /\ \A b \in DeviceAttrs :
                 ~Supported(HType(h), b.group, b.attr)
                 => get_device_attr(kernel', handles[h].self, b).res # last'.res
            /\ \A p \in Addrs :
                 Mapped(p)
                 => get_device_attr(kernel', handles[h].self,
                                    [a EXCEPT !.addr = p]).res = Ok)]_vars

\* get_device_attr has just failed with EFAULT for the interrupt count at addr 0.
C3_Witness ==
    /\ last.op = "get" /\ last.res = Err(EFAULT) /\ last.attr.addr = 0
    /\ last.attr.group = GRP_NR_IRQS /\ Live(last.h) /\ OnDevice(last.h)

\* C4: on a device of a type that needs a vCPU first, set_device_attr fails
\* while the VM has no vCPU and changes neither a device nor a handle; once
\* a vCPU exists the set of a supported pair from a mapped buffer succeeds,
\* also when the identical call (same handle, same descriptor) failed just
\* before.
C4_SetNeedsVcpu ==
    [][LET h == last'.h  a == last'.attr IN
        (CallStep("set", h, a) /\ OnDevice(h) /\ HType(h) = VcpuFirst)
        => /\ kernel.vcpus = 0
              => (/\ ~last'.res.ok
                  /\ kernel'.devs = kernel.devs
                  /\ kernel'.fdtab = kernel.fdtab
                  /\ handles' = handles)
           /\ (/\ kernel.vcpus > 0
               /\ Supported(VcpuFirst, a.group, a.attr)
               /\ Mapped(a.addr))
              => last'.res = Ok]_vars

\* The set that failed without a vCPU has just succeeded on the retry.
C4_Witness ==
    /\ last.op = "set" /\ last.res = Ok /\ last.prev = EBUSY
    /\ Live(last.h) /\ OnDevice(last.h) /\ HType(last.h) = VcpuFirst

\* Exclusive ownership and the close at drop.
OwnedOnce ==
    \A h, g \in HandleIds :
        (Live(h) /\ Live(g) /\ h # g) => handles[h].self.fd # handles[g].self.fd

OpenWhileLive == \A h \in HandleIds : Live(h) => HFile(h) # Closed

ClosedAtDrop ==
    \A h \in HandleIds :
        handles[h].st = "dropped"
        => (handles[h].nclose = 1 /\ handles[h].wasOpen /\ ~handles[h].leftOpen)

\* C5 as stated: over any sequence of new_device, from_raw_fd, the attribute
\* calls, as_raw_fd and drops, no two live handles own one descriptor value,
\* a live handle's descriptor is open, and the drop of a handle closes its
\* descriptor once: open before, closed after.
C5_AnySequence == OwnedOnce /\ OpenWhileLive /\ ClosedAtDrop

\* C5, amended: the same, as long as every from_raw_fd was given a descriptor
\* that was open and owned by no live handle.
C5_ClosedOnceAtDrop == ~broken => (OwnedOnce /\ OpenWhileLive /\ ClosedAtDrop)

\* A handle made by from_raw_fd over a duplicate has been dropped while the
\* handle it was duplicated from lives on.
C5_Witness ==
    /\ ~broken
    /\ \E h, g \in HandleIds :
        /\ handles[g].st = "dropped" /\ handles[g].src = h /\ Live(h)
        /\ handles[g].nclose = 1

\* C6: when a handle is made by from_raw_fd over a duplicate of another
\* handle's as_raw_fd, each of the two, while it lives, has an open descriptor
\* that refers to the file of the original, whether or not the other one
\* has been dropped.
C6_DuplicateSurvives ==
    ~broken =>
    \A h, g \in HandleIds :
        handles[g].src = h
        => /\ Live(g) => (HFile(g) = handles[g].file /\ HFile(g) # Closed)
           /\ Live(h) => (HFile(h) = handles[h].file /\ HFile(h) # Closed)
           /\ (Live(g) /\ Live(h)) => handles[g].file = handles[h].file

\* The original has been dropped and the handle over the duplicate still
\* refers to the device.
C6_Witness ==
    /\ ~broken
    /\ \E h, g \in HandleIds :
        /\ handles[g].src = h /\ handles[h].st = "dropped" /\ Live(g)
        /\ OnDevice(g) /\ HFile(g) = handles[g].file

\* C7: for every serializable type T and every structure x of T, the default
\* included, deserializing the serialized x succeeds and serializing the
\* result gives the serialized x again, byte for byte, in the binary and in
\* the JSON encoding.
C7_RoundTrip ==
    serde.op = "round_trip" => (serde.ok /\ serde.again = serde.input)

\* A kvm_regs whose last byte is 255 has gone through the JSON round trip,
\* and a kvm_irq_routing_entry through the binary one.
C7_Witness ==
    /\ serde.op = "round_trip" /\ serde.ok /\ serde.again = serde.input
    /\ \/ /\ serde.format = "json" /\ serde.T = "kvm_regs"
          /\ serde.value.bytes[size_of("kvm_regs")] = 255
       \/ /\ serde.format = "bincode" /\ serde.T = "kvm_irq_routing_entry"
          /\ serde.value.bytes[1] = MaxByte

\* C8: deserializing T from a buffer whose length is not the size of T fails
\* with a size mismatch, yields no structure and reads nothing past the
\* buffer; from a buffer of exactly the size of T it succeeds and the
\* structure holds the buffer's bytes.
C8_DecodeChecksSize ==
    serde.op = "decode"
    => /\ serde.read <= serde.len
       /\ serde.len # size_of(serde.T)
          => (~serde.ok /\ serde.err = "size-mismatch" /\ serde.value = NoStruct)
       /\ serde.len = size_of(serde.T)
          => (serde.ok /\ serde.value.bytes = serde.input)

\* A buffer one byte short of kvm_one_reg has been refused.
C8_Witness ==
    /\ serde.op = "decode" /\ serde.T = "kvm_one_reg"
    /\ serde.len = size_of("kvm_one_reg") - 1 /\ ~serde.ok
    /\ serde.err = "size-mismatch"

AttrCall(h, a) ==
    CallStep("has", h, a) \/ CallStep("set", h, a) \/ CallStep("get", h, a)

\* C9: each has/set/get_device_attr call issues exactly one control
\* operation, on the handle's descriptor, and returns its one result; a
\* failure is returned without a second operation, and the call leaves the
\* handles as they were.
C9_OneControlOperation ==
    [][LET h == last'.h  a == last'.attr IN
        AttrCall(h, a)
        => (/\ Len(last'.calls) = 1
            /\ last'.calls[1].fd = handles[h].self.fd
            /\ handles' = handles)]_vars

\* A call has just failed, after one control operation.
C9_Witness ==
    /\ last.op = "has" /\ ~last.res.ok /\ Len(last.calls) = 1

\* C10: through a handle whose descriptor is open but is no device,
\* has_device_attr, get_device_attr and set_device_attr each return an error,
\* in any order, and after each the OS error code is ENOTTY (25).
C10_NotADevice ==
    [][LET h == last'.h  a == last'.attr IN
        (AttrCall(h, a) /\ HFile(h) = OtherFile)
        => (/\ last'.res = Err(ENOTTY)
            /\ kernel'.errno = ENOTTY)]_vars

\* set_device_attr has just failed with ENOTTY through a handle over descriptor 0.
C10_Witness ==
    /\ last.op = "set" /\ last.res = Err(ENOTTY) /\ kernel.errno = ENOTTY
    /\ Live(last.h) /\ HFile(last.h) = OtherFile

\* The result of the call in last, against the return value of its control
\* operation.
OkIffZero == last.res.ok <=> last.ret = 0

\* The error carries the code the call's control operation set.
CodeOfThisCall ==
    /\ ~last.res.ok
    /\ last.res.code = last.calls[1].errno
    /\ last.res.code # 0

\* C11 as stated: the result of has/set/get_device_attr is Ok exactly when the
\* control operation returned 0, and for every other return value, negative
\* or positive, it is an error carrying the OS error code that operation
\* set, never 0 and never one left by an earlier call.
C11_EveryNonZero ==
    last.op # "none" => (OkIffZero /\ (last.ret # 0 => CodeOfThisCall))

\* What the three methods do guarantee: Ok exactly when the control operation
\* returned 0; for a negative return value an error carrying the code that
\* operation set, never 0; for a positive return value, where the operation
\* sets none, an error carrying errno as the call found it.
ErrnoOfFailure ==
    last.op # "none"
    => /\ OkIffZero
       /\ last.ret < 0 => CodeOfThisCall
       /\ last.ret > 0 => (~last.res.ok /\ last.calls[1].errno = 0
                           /\ last.res.code = kernel.errno)

\* C11: a handle within the contract of from_raw_fd whose control operation
\* returned a positive value, and the call has returned the error code an
\* earlier call left.
C11_Witness ==
    /\ ~broken
    /\ last.op = "get" /\ last.ret > 0 /\ ~last.res.ok
    /\ last.res.code = ENOTTY /\ last.calls[1].errno = 0
====
